---- MODULE Spec2Model ----
(***************************************************************************)
(* Model of bcoin's PSBT (BIP-174) codec: lib/psbt/psbt.js (PSBT envelope  *)
(* and PSBTInput), lib/psbt/output.js, lib/psbt/path.js and                *)
(* lib/psbt/common.js.                                                     *)
(*                                                                         *)
(* Byte sequences are sequences of naturals 0..255.  A reader position is  *)
(* the number of bytes consumed so far (bufio's br.offset).  An optional   *)
(* object field (null or an object) is a sequence of length 0 or 1, so     *)
(* that an empty Script object is still "truthy" as it is in JavaScript.   *)
(* A BufferMap is a sequence of [key, value] entries in insertion order.   *)
(***************************************************************************)
EXTENDS Integers, Sequences, FiniteSets, TLC

VARIABLES raw, psbt, status, err, op, arg, ret, out, path, size2

vars == <<raw, psbt, status, err, op, arg, ret, out, path, size2>>

----------------------------------------------------------------------------
(* lib/psbt/common.js *)

MAGIC == 1886610036

MAGIC_SEP == 255

SEPARATOR == 0

UNSIGNED_TX == 0

NON_WITNESS_UTXO == 0

WITNESS_UTXO == 1

PARTIAL_SIG == 2

SIGHASH == 3

REDEEMSCRIPT == 4

WITNESSSCRIPT == 5

BIP32_DERIVATION == 6

SCRIPTSIG == 7

SCRIPTWITNESS == 8

----------------------------------------------------------------------------
(* Generic helpers *)

Null == <<>>

Some(x) == <<x>>

IsSet(f) == f # <<>>

RECURSIVE Flatten(_)
Flatten(ss) == IF ss = <<>> THEN <<>> ELSE Head(ss) \o Flatten(Tail(ss))

Slice(data, from, len) == [i \in 1..len |-> data[from + i]]

Repeat(b, n) == [i \in 1..n |-> b]

SeqsUpTo(S, n) == UNION {[1..k -> S] : k \in 0..n}

(* The element of a singleton set: Only({e(x) : x \in {v}}) is e(v), with  *)
(* the intermediate result v computed once.                               *)
Only(S) == CHOOSE x \in S : TRUE

(* BufferMap: has / get / set.  set() on a present key replaces the value *)
(* in place (JavaScript Map keeps the original insertion position).       *)
MapHas(m, k) == \E i \in 1..Len(m) : m[i].key = k

MapSet(m, k, v) ==
  IF MapHas(m, k)
    THEN [i \in 1..Len(m) |-> IF m[i].key = k THEN [key |-> k, value |-> v] ELSE m[i]]
    ELSE Append(m, [key |-> k, value |-> v])

----------------------------------------------------------------------------
(* bufio reader / writer primitives *)

Left(data, off) == Len(data) - off

(* little-endian unsigned integer of n bytes starting after off *)
RECURSIVE ReadLE(_, _, _)
ReadLE(data, off, n) ==
  IF n = 0 THEN 0 ELSE data[off + 1] + 256 * ReadLE(data, off + 1, n - 1)

RECURSIVE ReadBE(_, _, _)
ReadBE(data, off, n) ==
  IF n = 0 THEN 0 ELSE data[off + n] + 256 * ReadBE(data, off, n - 1)

RECURSIVE WriteLE(_, _)
WriteLE(v, n) ==
  IF n = 0 THEN <<>> ELSE <<v % 256>> \o WriteLE(v \div 256, n - 1)

RECURSIVE WriteBE(_, _)
WriteBE(v, n) ==
  IF n = 0 THEN <<>> ELSE WriteBE(v \div 256, n - 1) \o <<v % 256>>

(* Bitcoin varint: one byte below 0xfd, else 0xfd + u16 (canonical only). *)
(* The 0xfe / 0xff forms hold lengths no modelled buffer can satisfy.     *)
ReadVarint(data, off) ==
  IF Left(data, off) < 1 THEN [ok |-> FALSE, val |-> 0, off |-> off]
  ELSE IF data[off + 1] < 253 THEN [ok |-> TRUE, val |-> data[off + 1], off |-> off + 1]
  ELSE IF data[off + 1] = 253 /\ Left(data, off) >= 3 /\ ReadLE(data, off + 1, 2) >= 253
    THEN [ok |-> TRUE, val |-> ReadLE(data, off + 1, 2), off |-> off + 3]
  ELSE [ok |-> FALSE, val |-> 0, off |-> off]

WriteVarint(n) ==
  IF n < 253 THEN <<n>> ELSE <<253>> \o WriteLE(n, 2)

ReadVarBytes(data, off) ==
  Only({ IF ~n.ok \/ Left(data, n.off) < n.val
           THEN [ok |-> FALSE, bytes |-> <<>>, off |-> off]
           ELSE [ok |-> TRUE, bytes |-> Slice(data, n.off, n.val), off |-> n.off + n.val]
         : n \in {ReadVarint(data, off)} })

WriteVarBytes(b) == WriteVarint(Len(b)) \o b

(* sizeVarint(n); no modelled length reaches the 9-byte form *)
SizeVarint(n) == IF n < 253 THEN 1 ELSE IF n <= 65535 THEN 3 ELSE 5

(* sizeVarint(len / 2), len / 2 being a JavaScript number (not truncated) *)
SizeVarintOfHalf(len) == IF len < 2 * 253 THEN 1 ELSE IF len <= 2 * 65535 THEN 3 ELSE 5

RECURSIVE Sum(_)
Sum(ns) == IF ns = <<>> THEN 0 ELSE Head(ns) + Sum(Tail(ns))

----------------------------------------------------------------------------
(* Collaborator codecs (primitives/tx, primitives/output, script, witness, *)
(* secp256k1, hash160).  They are opaque units with an exact byte round    *)
(* trip.  A transaction here is                                            *)
(*   <<nIn>> \o (per input <<s, w>>) \o <<nOut>> \o (per output <<value>>) *)
(* where s = 0 is an empty input script and s > 0 the one-byte script      *)
(* <<s>>, and w = 0 an empty witness and w > 0 the witness of one item     *)
(* <<w>>.                                                                  *)

TXInput(s, w) ==
  [script  |-> [raw |-> IF s = 0 THEN <<>> ELSE <<s>>],
   witness |-> [items |-> IF w = 0 THEN <<>> ELSE << <<w>> >>]]

TXFromRaw(data) ==
  IF Len(data) < 2 THEN [ok |-> FALSE, tx |-> Null]
  ELSE LET nIn  == data[1]
           oOff == 1 + 2 * nIn
       IN  IF Len(data) < oOff + 1 \/ Len(data) # oOff + 1 + data[oOff + 1]
             THEN [ok |-> FALSE, tx |-> Null]
             ELSE [ok |-> TRUE,
                   tx |-> Some([inputs  |-> [i \in 1..nIn |-> TXInput(data[2 * i], data[2 * i + 1])],
                                outputs |-> [j \in 1..data[oOff + 1] |-> [value |-> data[oOff + 1 + j]]]])]

TXToRaw(tx) ==
  <<Len(tx.inputs)>>
  \o Flatten([i \in 1..Len(tx.inputs) |->
       << IF tx.inputs[i].script.raw = <<>> THEN 0 ELSE tx.inputs[i].script.raw[1],
          IF tx.inputs[i].witness.items = <<>> THEN 0 ELSE tx.inputs[i].witness.items[1][1] >>])
  \o <<Len(tx.outputs)>>
  \o [j \in 1..Len(tx.outputs) |-> tx.outputs[j].value]

(* tx.hash(): the transaction identifier, a digest of the serialization    *)
(* without witness data; the digest is taken to be collision free.         *)
TXHash(tx) ==
  <<"hash256",
    <<Len(tx.inputs)>>
    \o Flatten([i \in 1..Len(tx.inputs) |-> tx.inputs[i].script.raw])
    \o <<Len(tx.outputs)>>
    \o [j \in 1..Len(tx.outputs) |-> tx.outputs[j].value]>>

(* Output: <<value>> \o varbytes(script) *)
OutputFromRaw(data) ==
  Only({ IF Len(data) < 2 \/ ~s.ok \/ s.off # Len(data)
           THEN [ok |-> FALSE, output |-> Null]
           ELSE [ok |-> TRUE, output |-> Some([value |-> data[1], script |-> [raw |-> s.bytes]])]
         : s \in {ReadVarBytes(data, 1)} })

OutputToRaw(o) == <<o.value>> \o WriteVarBytes(o.script.raw)

(* Script.fromRaw keeps the raw bytes; any byte string is a script. *)
ScriptFromRaw(data) == [raw |-> data]

(* Witness: <<count>> \o count one-byte-length items *)
RECURSIVE ReadItems(_, _, _)
ReadItems(data, off, n) ==
  IF n = 0 THEN [ok |-> off = Len(data), items |-> <<>>]
  ELSE Only({ IF ~b.ok THEN [ok |-> FALSE, items |-> <<>>]
              ELSE Only({ [ok |-> r.ok, items |-> <<b.bytes>> \o r.items]
                          : r \in {ReadItems(data, b.off, n - 1)} })
              : b \in {ReadVarBytes(data, off)} })

WitnessFromRaw(data) ==
  Only({ IF ~n.ok THEN [ok |-> FALSE, witness |-> Null]
         ELSE Only({ IF ~r.ok THEN [ok |-> FALSE, witness |-> Null]
                     ELSE [ok |-> TRUE, witness |-> Some([items |-> r.items])]
                     : r \in {ReadItems(data, n.off, n.val)} })
         : n \in {ReadVarint(data, 0)} })

(* secp256k1.publicKeyVerify: the encoding part of the predicate (a 33-byte *)
(* key starts with 2 or 3, a 65-byte key with 4, 6 or 7).                   *)
publicKeyVerify(pubkey) ==
  \/ Len(pubkey) = 33 /\ pubkey[1] \in {2, 3}
  \/ Len(pubkey) = 65 /\ pubkey[1] \in {4, 6, 7}

(* hash160.digest: a collision-free digest of the key bytes *)
hash160(pubkey) == <<"hash160", pubkey>>

----------------------------------------------------------------------------
(* lib/psbt/path.js *)

NewPath == [masterFingerPrint |-> 0, indexes |-> <<>>]

PathGetSize(p) == 4 + Len(p.indexes) * 4

PathRead(data) ==
  IF Len(data) < 4 \/ (Len(data) - 4) % 4 # 0
    THEN [ok |-> FALSE, path |-> Null]
    ELSE [ok |-> TRUE,
          path |-> Some([masterFingerPrint |-> ReadBE(data, 0, 4),
                         indexes |-> [i \in 1..((Len(data) - 4) \div 4) |-> ReadLE(data, 4 * i, 4)]])]

(* Path.fromIndexes / new Path({indexes, masterFingerPrint}) *)
PathFromIndexes(xs, f) == [masterFingerPrint |-> f, indexes |-> xs]

(* variant of Path.write that writes the fingerprint with writeU32 *)
PathWrite_LittleEndian(p) ==
  WriteLE(p.masterFingerPrint, 4)
  \o Flatten([i \in 1..Len(p.indexes) |-> WriteLE(p.indexes[i], 4)])

PathWrite(p) ==
  WriteBE(p.masterFingerPrint, 4)
  \o Flatten([i \in 1..Len(p.indexes) |-> WriteLE(p.indexes[i], 4)])

----------------------------------------------------------------------------
(* PSBTInput *)

NewPSBTInput ==
  [tx |-> Null, output |-> Null, redeem |-> Null, redeemWitness |-> Null,
   script |-> Null, witnessStack |-> Null, hashType |-> 0,
   paths |-> <<>>, signatures |-> <<>>, unknown |-> <<>>]

InputErr(e, off, in) == [err |-> e, off |-> off, input |-> in]

(* One iteration of the switch in PSBTInput.read, for a non-empty key whose *)
(* bytes end at koff.  err = "" means the record was stored.                *)
InputReadRecord(data, key, koff, in) ==
  Only({
    CASE key[1] = NON_WITNESS_UTXO ->
           IF IsSet(in.tx) THEN InputErr("duplicate", koff, in)
           ELSE IF ~v.ok THEN InputErr("frame", koff, in)
           ELSE Only({ IF ~t.ok THEN InputErr("parse", v.off, in)
                       ELSE InputErr("", v.off, [in EXCEPT !.tx = t.tx])
                       : t \in {TXFromRaw(v.bytes)} })
      [] key[1] = WITNESS_UTXO ->
           IF IsSet(in.output) THEN InputErr("duplicate", koff, in)
           ELSE IF ~v.ok THEN InputErr("frame", koff, in)
           ELSE Only({ IF ~o.ok THEN InputErr("parse", v.off, in)
                       ELSE InputErr("", v.off, [in EXCEPT !.output = o.output])
                       : o \in {OutputFromRaw(v.bytes)} })
      [] key[1] = PARTIAL_SIG ->
           IF ~(Len(key) = 33 + 1 \/ Len(key) = 65 + 1) THEN InputErr("key", koff, in)
           ELSE IF ~publicKeyVerify(Tail(key)) THEN InputErr("key", koff, in)
           ELSE IF ~v.ok THEN InputErr("frame", koff, in)
           ELSE InputErr("", v.off,
                  [in EXCEPT !.signatures = MapSet(@, hash160(Tail(key)), <<Tail(key), v.bytes>>)])
      [] key[1] = SIGHASH ->
           IF in.hashType # 0 THEN InputErr("duplicate", koff, in)
           ELSE IF ~v.ok THEN InputErr("frame", koff, in)
           ELSE IF Len(v.bytes) < 4 THEN InputErr("frame", v.off, in)
           ELSE InputErr("", v.off, [in EXCEPT !.hashType = ReadLE(v.bytes, 0, 4)])
      [] key[1] = REDEEMSCRIPT ->
           IF IsSet(in.redeem) THEN InputErr("duplicate", koff, in)
           ELSE IF ~v.ok THEN InputErr("frame", koff, in)
           ELSE InputErr("", v.off, [in EXCEPT !.redeem = Some(ScriptFromRaw(v.bytes))])
      [] key[1] = WITNESSSCRIPT ->
           IF IsSet(in.redeemWitness) THEN InputErr("duplicate", koff, in)
           ELSE IF ~v.ok THEN InputErr("frame", koff, in)
           ELSE InputErr("", v.off, [in EXCEPT !.redeemWitness = Some(ScriptFromRaw(v.bytes))])
      [] key[1] = BIP32_DERIVATION ->
           IF ~publicKeyVerify(Tail(key)) THEN InputErr("key", koff, in)
           ELSE IF ~v.ok THEN InputErr("frame", koff, in)
           ELSE Only({ IF ~pr.ok THEN InputErr("frame", v.off, in)
                       ELSE InputErr("", v.off,
                              [in EXCEPT !.paths = MapSet(@, hash160(Tail(key)), pr.path[1])])
                       : pr \in {PathRead(v.bytes)} })
      [] key[1] = SCRIPTSIG ->
           IF IsSet(in.script) THEN InputErr("duplicate", koff, in)
           ELSE IF ~v.ok THEN InputErr("frame", koff, in)
           ELSE InputErr("", v.off, [in EXCEPT !.script = Some(ScriptFromRaw(v.bytes))])
      [] key[1] = SCRIPTWITNESS ->
           IF IsSet(in.witnessStack) THEN InputErr("duplicate", koff, in)
           ELSE IF ~v.ok THEN InputErr("frame", koff, in)
           ELSE Only({ IF ~w.ok THEN InputErr("parse", v.off, in)
                       ELSE InputErr("", v.off, [in EXCEPT !.witnessStack = w.witness])
                       : w \in {WitnessFromRaw(v.bytes)} })
      [] OTHER ->
           IF MapHas(in.unknown, key) THEN InputErr("duplicate", koff, in)
           ELSE IF ~v.ok THEN InputErr("frame", koff, in)
           ELSE InputErr("", v.off, [in EXCEPT !.unknown = MapSet(@, key, v.bytes)])
    : v \in {ReadVarBytes(data, koff)} })

(* PSBTInput.read: the loop runs while bytes are left and stops at a       *)
(* zero-length key.                                                        *)
RECURSIVE InputRead(_, _, _)
InputRead(data, off, in) ==
  IF Left(data, off) = 0 THEN InputErr("", off, in)
  ELSE Only({ IF ~k.ok THEN InputErr("frame", off, in)
              ELSE IF Len(k.bytes) = 0 THEN InputErr("", k.off, in)
              ELSE Only({ IF r.err # "" THEN r ELSE InputRead(data, r.off, r.input)
                          : r \in {InputReadRecord(data, k.bytes, k.off, in)} })
              : k \in {ReadVarBytes(data, off)} })

(* PSBTInput.getSize; tx.getSize() and output.getSize() are the lengths of *)
(* their serializations                                                   *)
InputGetSize(in) ==
  (IF IsSet(in.tx)
     THEN 2 + SizeVarint(Len(TXToRaw(in.tx[1]))) + Len(TXToRaw(in.tx[1]))
   ELSE IF IsSet(in.output)
     THEN 2 + SizeVarint(Len(OutputToRaw(in.output[1]))) + Len(OutputToRaw(in.output[1]))
   ELSE 0)
  +
  (IF ~IsSet(in.script) /\ ~IsSet(in.witnessStack)
     THEN Sum([i \in 1..Len(in.signatures) |->
            SizeVarint(1 + Len(in.signatures[i].value[1])) + (1 + Len(in.signatures[i].value[1]))
            + SizeVarint(Len(in.signatures[i].value[2])) + Len(in.signatures[i].value[2])])
          + (IF in.hashType > 0 THEN 2 + (1 + 4) ELSE 0)
     ELSE 0)

(* PSBTInput.write *)
InputWrite(in) ==
  (IF IsSet(in.tx)
     THEN WriteVarint(1) \o <<NON_WITNESS_UTXO>> \o WriteVarBytes(TXToRaw(in.tx[1]))
   ELSE IF IsSet(in.output)
     THEN WriteVarint(1) \o <<WITNESS_UTXO>> \o WriteVarBytes(OutputToRaw(in.output[1]))
   ELSE <<>>)
  \o
  (IF ~IsSet(in.script) /\ ~IsSet(in.witnessStack)
     THEN Flatten([i \in 1..Len(in.signatures) |->
            WriteVarint(Len(in.signatures[i].value[1]) + 1) \o <<PARTIAL_SIG>>
            \o in.signatures[i].value[1]
            \o WriteVarBytes(in.signatures[i].value[2])])
          \o (IF in.hashType > 0
                THEN WriteVarint(1) \o <<SIGHASH>> \o WriteVarint(4) \o WriteLE(in.hashType, 4)
                ELSE <<>>)
     ELSE <<>>)

(* PSBTInput.merge *)
InputMerge(in, other) == in

(* variant of PSBTInput.isSane without the check of the finalized witness *)
InputIsSane_NoStackCheck(in) ==
  IF IsSet(in.tx) /\ IsSet(in.output) THEN FALSE
  ELSE IF IsSet(in.redeemWitness) /\ ~IsSet(in.output) THEN FALSE
  ELSE TRUE

(* PSBTInput.isSane *)
InputIsSane(in) ==
  IF IsSet(in.tx) /\ IsSet(in.output) THEN FALSE
  ELSE IF IsSet(in.redeemWitness) /\ ~IsSet(in.output) THEN FALSE
  ELSE IF IsSet(in.witnessStack) /\ ~IsSet(in.output) THEN FALSE
  ELSE TRUE

----------------------------------------------------------------------------
(* PSBT *)

NewPSBT == [inputs |-> <<>>, outputs |-> <<>>, unknown |-> <<>>, mtx |-> Null]

PSBTErr(e, off, p) == [err |-> e, off |-> off, psbt |-> p]

(* variant of isTransactionUnsigned that looks at the scripts only *)
isTransactionUnsigned_ScriptOnly(mtx) ==
  \A i \in 1..Len(mtx.inputs) : ~(Len(mtx.inputs[i].script.raw) # 0)

isTransactionUnsigned(mtx) ==
  \A i \in 1..Len(mtx.inputs) :
    ~(Len(mtx.inputs[i].script.raw) # 0 \/ Len(mtx.inputs[i].witness.items) # 0)

(* the global scope loop of PSBT.read *)
RECURSIVE GlobalRead(_, _, _)
GlobalRead(data, off, p) ==
  IF Left(data, off) = 0 THEN PSBTErr("", off, p)
  ELSE Only({
         IF ~k.ok THEN PSBTErr("frame", off, p)
         ELSE IF Len(k.bytes) = 0 THEN PSBTErr("", k.off, p)
         ELSE Only({
                IF k.bytes[1] = UNSIGNED_TX
                  THEN IF IsSet(p.mtx) THEN PSBTErr("duplicate", k.off, p)
                       ELSE IF ~v.ok THEN PSBTErr("frame", k.off, p)
                       ELSE Only({ IF ~t.ok THEN PSBTErr("parse", v.off, p)
                                   ELSE IF ~isTransactionUnsigned(t.tx[1])
                                     THEN PSBTErr("signed", v.off, [p EXCEPT !.mtx = t.tx])
                                   ELSE GlobalRead(data, v.off, [p EXCEPT !.mtx = t.tx])
                                   : t \in {TXFromRaw(v.bytes)} })
                  ELSE IF MapHas(p.unknown, k.bytes) THEN PSBTErr("duplicate", k.off, p)
                       ELSE IF ~v.ok THEN PSBTErr("frame", k.off, p)
                       ELSE GlobalRead(data, v.off, [p EXCEPT !.unknown = MapSet(@, k.bytes, v.bytes)])
                : v \in {ReadVarBytes(data, k.off)} })
         : k \in {ReadVarBytes(data, off)} })

(* the input scope loop of PSBT.read: one PSBTInput.fromReader per        *)
(* transaction input                                                      *)
RECURSIVE InputsRead(_, _, _, _)
InputsRead(data, off, p, n) ==
  IF n = 0 THEN PSBTErr("", off, p)
  ELSE Only({ IF r.err # "" THEN PSBTErr(r.err, r.off, p)
              ELSE InputsRead(data, r.off, [p EXCEPT !.inputs = Append(@, r.input)], n - 1)
              : r \in {InputRead(data, off, NewPSBTInput)} })

(* PSBT.read on a fresh PSBT (PSBT.fromRaw) *)
PSBTRead(data) ==
  IF Left(data, 0) < 5 THEN PSBTErr("frame", 0, NewPSBT)
  ELSE IF ~(ReadBE(data, 0, 4) = MAGIC /\ data[5] = MAGIC_SEP) THEN PSBTErr("magic", 5, NewPSBT)
  ELSE Only({ IF g.err # "" THEN g
              ELSE IF ~IsSet(g.psbt.mtx) THEN PSBTErr("missing", g.off, g.psbt)
              ELSE InputsRead(data, g.off, g.psbt, Len(g.psbt.mtx[1].inputs))
              : g \in {GlobalRead(data, 5, NewPSBT)} })

(* PSBT.getSize, times two: the loop over this.unknown adds               *)
(* sizeVarint(key.length / 2) + key.length / 2 for each key               *)
PSBTGetSize2(p) ==
  2 * (5 + 2 + SizeVarint(Len(TXToRaw(p.mtx[1]))) + Len(TXToRaw(p.mtx[1])))
  + Sum([i \in 1..Len(p.unknown) |->
       2 * SizeVarintOfHalf(Len(p.unknown[i].key)) + Len(p.unknown[i].key)
       + 2 * (SizeVarint(Len(p.unknown[i].value)) + Len(p.unknown[i].value))])
  + 2 * 1
  + Sum([i \in 1..Len(p.inputs) |-> 2 * (InputGetSize(p.inputs[i]) + 1)])

(* PSBT.write; ok is false when the assertion on this.mtx fails *)
PSBTWrite(p) ==
  IF ~IsSet(p.mtx) THEN [ok |-> FALSE, bytes |-> WriteBE(MAGIC, 4) \o <<MAGIC_SEP>>]
  ELSE [ok |-> TRUE,
        bytes |-> WriteBE(MAGIC, 4) \o <<MAGIC_SEP>>
                  \o WriteVarint(1) \o <<UNSIGNED_TX>>
                  \o WriteVarBytes(TXToRaw(p.mtx[1]))
                  \o Flatten([i \in 1..Len(p.unknown) |->
                       WriteVarBytes(p.unknown[i].key) \o WriteVarBytes(p.unknown[i].value)])
                  \o <<SEPARATOR>>
                  \o Flatten([i \in 1..Len(p.inputs) |-> InputWrite(p.inputs[i]) \o <<SEPARATOR>>])]

(* PSBT.isSane *)
PSBTIsSane(p) == \A i \in 1..Len(p.inputs) : InputIsSane(p.inputs[i])

(* PSBT.merge: ok is false when an assertion fails (psbt.inputs[i] or      *)
(* psbt.outputs[i] is undefined); merged holds the records combined before *)
(* the failure.  PSBTOutput defines no merge method, so reaching           *)
(* output.merge raises as well.                                            *)
PSBTMerge(p, other) ==
  LET nIn == IF Len(other.inputs) < Len(p.inputs) THEN Len(other.inputs) ELSE Len(p.inputs)
      merged == [p EXCEPT !.inputs =
                   [i \in 1..Len(p.inputs) |->
                      IF i <= nIn THEN InputMerge(p.inputs[i], other.inputs[i]) ELSE p.inputs[i]]]
  IN [ok |-> Len(other.inputs) >= Len(p.inputs) /\ Len(p.outputs) = 0, psbt |-> merged]

(* variant of PSBT.equals that also compares the input records *)
PSBTEquals_Deep(p, other) ==
  IF ~IsSet(p.mtx) \/ ~IsSet(other.mtx) THEN [ok |-> FALSE, ret |-> FALSE]
  ELSE [ok |-> TRUE,
        ret |-> TXHash(p.mtx[1]) = TXHash(other.mtx[1]) /\ p.inputs = other.inputs]

(* PSBT.equals; ok is false when either side has no transaction *)
PSBTEquals(p, other) ==
  IF ~IsSet(p.mtx) \/ ~IsSet(other.mtx) THEN [ok |-> FALSE, ret |-> FALSE]
  ELSE [ok |-> TRUE, ret |-> TXHash(p.mtx[1]) = TXHash(other.mtx[1])]

----------------------------------------------------------------------------
(* Inputs of decode: byte strings built from the magic and a bounded run  *)
(* of records and separators.                                             *)

MaxGlobalItems == 3

MaxItems == 3

Magic == WriteBE(MAGIC, 4) \o <<MAGIC_SEP>>

Sep == <<SEPARATOR>>

Rec(key, value) == WriteVarBytes(key) \o WriteVarBytes(value)

K1 == <<2>> \o Repeat(1, 32)

K2 == <<3>> \o Repeat(1, 32)

T0 == <<0, 0>>

T1 == <<1, 0, 0, 0>>

T2 == <<2, 0, 0, 0, 0, 0>>

T3 == <<1, 0, 0, 1, 5>>

T4 == <<1, 7, 0, 0>>

T5 == <<1, 0, 7, 0>>

UnknownRec == Rec(<<15>>, <<7>>)

SigRec(k, sig) == Rec(<<PARTIAL_SIG>> \o k, sig)

GlobalItems ==
  {Rec(<<UNSIGNED_TX>>, t) : t \in {T1, T2, T3, T4, T5}} \cup {UnknownRec, Sep}

InputItems ==
  { Rec(<<NON_WITNESS_UTXO>>, T1),
    Rec(<<WITNESS_UTXO>>, <<5, 0>>),
    SigRec(K1, <<9>>),
    Rec(<<SIGHASH>>, <<1, 0, 0, 0>>),
    Rec(<<SIGHASH>>, <<0, 0, 0, 0>>),
    Rec(<<REDEEMSCRIPT>>, <<8>>),
    Rec(<<WITNESSSCRIPT>>, <<8>>),
    Rec(<<BIP32_DERIVATION>> \o K1, <<0, 0, 0, 1, 2, 0, 0, 0>>),
    Rec(<<SCRIPTSIG>>, <<8>>),
    Rec(<<SCRIPTWITNESS>>, <<1, 1, 8>>),
    UnknownRec,
    Sep }

(* malformed envelopes, keys and values *)
ExtraInputs ==
  { <<>>,
    <<112, 115, 98>>,
    <<112, 115, 98, 116, 0>> \o Rec(<<UNSIGNED_TX>>, T1) \o Sep \o Sep,
    Magic \o Rec(<<UNSIGNED_TX>>, <<1, 0>>) \o Sep \o Sep,
    Magic \o Rec(<<UNSIGNED_TX>>, T1) \o Sep \o Rec(<<PARTIAL_SIG, 2>>, <<9>>) \o Sep,
    Magic \o Rec(<<UNSIGNED_TX>>, T1) \o Sep \o SigRec(<<5>> \o Repeat(1, 32), <<9>>) \o Sep,
    Magic \o Rec(<<UNSIGNED_TX>>, T1) \o Sep \o Rec(<<SIGHASH>>, <<1, 0>>) \o Sep,
    Magic \o Rec(<<UNSIGNED_TX>>, T1) \o Sep \o Rec(<<BIP32_DERIVATION>> \o K1, <<0, 0, 0, 1, 2>>) \o Sep,
    Magic \o Rec(<<UNSIGNED_TX>>, T1) \o Sep \o <<3, SCRIPTSIG>>,
    Magic \o Rec(<<UNSIGNED_TX>>, T1) \o Sep \o SigRec(K1, <<9>>) \o SigRec(K2, <<9>>) \o Sep,
    Magic \o Rec(<<UNSIGNED_TX>>, T1) \o Sep \o SigRec(K1, <<9>>) \o SigRec(K1, <<8>>) \o Sep }

Inputs ==
  {Magic \o Flatten(s) : s \in SeqsUpTo(GlobalItems, MaxGlobalItems)}
  \cup {Magic \o Rec(<<UNSIGNED_TX>>, T1) \o Sep \o Flatten(s) : s \in SeqsUpTo(InputItems, MaxItems)}
  \cup ExtraInputs

(* The other PSBT of merge and equals: decoded from these byte strings. *)
OtherRaws ==
  { Magic \o Rec(<<UNSIGNED_TX>>, T1) \o Sep \o SigRec(K2, <<9>>) \o Sep,
    Magic \o Rec(<<UNSIGNED_TX>>, T1) \o Sep \o SigRec(K1, <<8>>) \o Sep,
    Magic \o Rec(<<UNSIGNED_TX>>, T2) \o Sep \o Sep \o Sep,
    Magic \o Rec(<<UNSIGNED_TX>>, T3) \o Sep \o Sep,
    Magic \o Rec(<<UNSIGNED_TX>>, T0) \o Sep }

Others == {PSBTRead(b).psbt : b \in OtherRaws}

----------------------------------------------------------------------------
(* State machine.  path is a Path object and size2 twice the value the   *)
(* last getSize() returned (PSBT.getSize adds key.length / 2, so its      *)
(* value is a multiple of one half).                                      *)
(* status is "new" for a freshly constructed PSBT,                        *)
(* "decoded" after a successful PSBT.fromRaw(raw), "failed" after one     *)
(* that raised.  op, arg, err, ret and out describe the last call: its    *)
(* name, its argument, the error it raised ("" for none), its boolean     *)
(* return value and the bytes it wrote.                                   *)

Init ==
  /\ raw \in Inputs
  /\ psbt = NewPSBT
  /\ status = "new"
  /\ err = ""
  /\ op = "new"
  /\ arg = <<>>
  /\ ret = FALSE
  /\ out = <<>>
  /\ path = NewPath
  /\ size2 = 0

Decode ==
  /\ status = "new"
  /\ \E r \in {PSBTRead(raw)} :
       /\ psbt' = IF r.err = "" THEN r.psbt ELSE NewPSBT
       /\ status' = IF r.err = "" THEN "decoded" ELSE "failed"
       /\ err' = r.err
  /\ op' = "decode"
  /\ arg' = <<>>
  /\ ret' = FALSE
  /\ out' = <<>>
  /\ UNCHANGED <<raw, path, size2>>

Write ==
  /\ status \in {"new", "decoded"}
  /\ \E w \in {PSBTWrite(psbt)} :
       /\ out' = w.bytes
       /\ err' = IF w.ok THEN "" ELSE "assert"
  /\ op' = "write"
  /\ arg' = <<>>
  /\ ret' = FALSE
  /\ UNCHANGED <<raw, psbt, status, path, size2>>

IsSane ==
  /\ status \in {"new", "decoded"}
  /\ ret' = PSBTIsSane(psbt)
  /\ err' = ""
  /\ op' = "isSane"
  /\ arg' = <<>>
  /\ out' = <<>>
  /\ UNCHANGED <<raw, psbt, status, path, size2>>

InputIsSaneCall ==
  /\ status = "decoded"
  /\ \E i \in 1..Len(psbt.inputs) :
       /\ ret' = InputIsSane(psbt.inputs[i])
       /\ arg' = <<i>>
  /\ err' = ""
  /\ op' = "inputIsSane"
  /\ out' = <<>>
  /\ UNCHANGED <<raw, psbt, status, path, size2>>

Merge ==
  /\ status = "decoded"
  /\ \E other \in Others :
       \E m \in {PSBTMerge(psbt, other)} :
         /\ psbt' = m.psbt
         /\ err' = IF m.ok THEN "" ELSE "assert"
         /\ arg' = <<other>>
  /\ op' = "merge"
  /\ ret' = FALSE
  /\ out' = <<>>
  /\ UNCHANGED <<raw, status, path, size2>>

Equals ==
  /\ status \in {"new", "decoded"}
  /\ \E other \in Others :
       \E e \in {PSBTEquals(psbt, other)} :
         /\ ret' = e.ret
         /\ err' = IF e.ok THEN "" ELSE "assert"
         /\ arg' = <<other>>
  /\ op' = "equals"
  /\ out' = <<>>
  /\ UNCHANGED <<raw, psbt, status, path, size2>>

Next ==
  \/ Decode
  \/ Write
  \/ IsSane
  \/ InputIsSaneCall
  \/ Merge
  \/ Equals

Spec == Init /\ [][Next]_vars

----------------------------------------------------------------------------
(* Serialization through toRaw(): getSize() gives the number of bytes to  *)
(* allocate and write() fills them.                                       *)

ToRaw ==
  /\ status = "decoded"
  /\ size2' = PSBTGetSize2(psbt)
  /\ out' = PSBTWrite(psbt).bytes
  /\ err' = ""
  /\ op' = "toRaw"
  /\ arg' = <<>>
  /\ ret' = FALSE
  /\ UNCHANGED <<raw, psbt, status, path>>

InputToRaw ==
  /\ status = "decoded"
  /\ \E i \in 1..Len(psbt.inputs) :
       /\ size2' = 2 * InputGetSize(psbt.inputs[i])
       /\ out' = InputWrite(psbt.inputs[i])
       /\ arg' = <<i>>
  /\ err' = ""
  /\ op' = "input.toRaw"
  /\ ret' = FALSE
  /\ UNCHANGED <<raw, psbt, status, path>>

SizeNext ==
  \/ Decode
  \/ ToRaw
  \/ InputToRaw

SizeSpec == Init /\ [][SizeNext]_vars

----------------------------------------------------------------------------
(* Path codec on its own: a Path built from options or decoded from bytes. *)
(* The uint32 values stay below 2^31, the largest integer of the checker.  *)

MaxIndexes == 2

MaxPathBytes == 9

U32s == {0, 1, 258, 16909060, 2147483647}

Paths == {PathFromIndexes(xs, f) : xs \in SeqsUpTo(U32s, MaxIndexes), f \in U32s}

PathRaws == SeqsUpTo({0, 1}, MaxPathBytes)

PathInit ==
  /\ \/ raw \in PathRaws /\ path = NewPath
     \/ raw = <<>> /\ path \in Paths
  /\ psbt = NewPSBT
  /\ status = "new"
  /\ err = ""
  /\ op = "new"
  /\ arg = <<>>
  /\ ret = FALSE
  /\ out = <<>>
  /\ size2 = 0

(* path.toRaw(): getSize() bytes are allocated and write() fills them *)
PathToRaw ==
  /\ op \in {"new", "path.fromRaw"}
  /\ err = ""
  /\ out' = PathWrite(path)
  /\ size2' = 2 * PathGetSize(path)
  /\ arg' = <<path>>
  /\ op' = "path.toRaw"
  /\ UNCHANGED <<raw, psbt, status, err, ret, path>>

(* Path.fromRaw(data), data being the bytes toRaw() just returned or raw *)
PathFromRaw ==
  /\ op \in {"new", "path.toRaw"}
  /\ \E r \in {PathRead(IF op = "path.toRaw" THEN out ELSE raw)} :
       /\ path' = IF r.ok THEN r.path[1] ELSE NewPath
       /\ err' = IF r.ok THEN "" ELSE "frame"
  /\ arg' = IF op = "path.toRaw" THEN arg ELSE <<>>
  /\ op' = "path.fromRaw"
  /\ UNCHANGED <<raw, psbt, status, ret, out, size2>>

PathNext ==
  \/ PathToRaw
  \/ PathFromRaw

PathSpec == PathInit /\ [][PathNext]_vars

----------------------------------------------------------------------------
(* Framing of a byte string, used to state the properties: the records    *)
(* (key, value) of the scope that starts at off, up to its zero-length    *)
(* key (term) or the end of the bytes.                                    *)

RECURSIVE ScanScope(_, _)
ScanScope(data, off) ==
  IF Left(data, off) <= 0 THEN [ok |-> TRUE, term |-> FALSE, recs |-> <<>>, off |-> off]
  ELSE Only({
         IF ~k.ok THEN [ok |-> FALSE, term |-> FALSE, recs |-> <<>>, off |-> off]
         ELSE IF Len(k.bytes) = 0 THEN [ok |-> TRUE, term |-> TRUE, recs |-> <<>>, off |-> k.off]
         ELSE Only({
                IF ~v.ok THEN [ok |-> FALSE, term |-> FALSE, recs |-> <<>>, off |-> off]
                ELSE Only({ [ok |-> r.ok, term |-> r.term,
                             recs |-> <<[key |-> k.bytes, value |-> v.bytes]>> \o r.recs,
                             off |-> r.off]
                            : r \in {ScanScope(data, v.off)} })
                : v \in {ReadVarBytes(data, k.off)} })
         : k \in {ReadVarBytes(data, off)} })

(* scope 1 is the global scope, scope n + 1 the n-th scope after it *)
RECURSIVE ScopeOff(_, _)
ScopeOff(data, n) ==
  IF n = 1 THEN Len(Magic) ELSE ScanScope(data, ScopeOff(data, n - 1)).off

Scope(data, n) == ScanScope(data, ScopeOff(data, n))

Keys(m) == {m[i].key : i \in 1..Len(m)}

Entries(m) == {m[i] : i \in 1..Len(m)}

NumInputs == Len(psbt.mtx[1].inputs)

NumOutputs == Len(psbt.mtx[1].outputs)

InputTags == 0..8

----------------------------------------------------------------------------
(* C1: for every byte sequence that decode accepts, encoding the decoded   *)
(* PSBT yields exactly that byte sequence.                                 *)
C1_RoundTrip ==
  (status = "decoded" /\ op = "write" /\ err = "" /\ psbt = PSBTRead(raw).psbt)
    => out = raw

(* C2: after A.merge(B) with equally many input records, every signature,  *)
(* path and unknown key present in only one of the two counterpart records *)
(* is present in A's record.                                               *)
OneSided(a, b) == (Keys(a) \ Keys(b)) \cup (Keys(b) \ Keys(a))

C2_MergeUnion ==
  [][(op' = "merge" /\ err' = "" /\ Len(arg'[1].inputs) = Len(psbt.inputs))
       => \A i \in 1..Len(psbt.inputs) :
            /\ OneSided(psbt.inputs[i].signatures, arg'[1].inputs[i].signatures)
                 \subseteq Keys(psbt'.inputs[i].signatures)
            /\ OneSided(psbt.inputs[i].paths, arg'[1].inputs[i].paths)
                 \subseteq Keys(psbt'.inputs[i].paths)
            /\ OneSided(psbt.inputs[i].unknown, arg'[1].inputs[i].unknown)
                 \subseteq Keys(psbt'.inputs[i].unknown)]_vars

(* C3: decode fails when a record's target slot was already populated by   *)
(* an earlier record of the same scope: an accepted byte sequence has no   *)
(* two records of one scope for the same slot (the field type for the      *)
(* single-valued fields, the whole key for signatures, derivations and     *)
(* unknown fields).                                                        *)
GlobalSlot(key) == IF key[1] = UNSIGNED_TX THEN <<UNSIGNED_TX>> ELSE key

InputSlot(key) ==
  IF key[1] \in {NON_WITNESS_UTXO, WITNESS_UTXO, SIGHASH, REDEEMSCRIPT,
                 WITNESSSCRIPT, SCRIPTSIG, SCRIPTWITNESS}
    THEN <<key[1]>> ELSE key

C3_DuplicateRejected ==
  status = "decoded" =>
    /\ \A i, j \in 1..Len(Scope(raw, 1).recs) :
         i # j => GlobalSlot(Scope(raw, 1).recs[i].key) # GlobalSlot(Scope(raw, 1).recs[j].key)
    /\ \A n \in 1..NumInputs :
         \A i, j \in 1..Len(Scope(raw, n + 1).recs) :
           i # j => InputSlot(Scope(raw, n + 1).recs[i].key) # InputSlot(Scope(raw, n + 1).recs[j].key)

(* C4: decode succeeds only if the bytes hold exactly one terminated scope *)
(* per transaction input and per transaction output and nothing after      *)
(* them, and then inputs.length and outputs.length equal the transaction's *)
(* input and output counts.                                                *)
C4_ScopeCount ==
  (status = "decoded" /\ IsSet(psbt.mtx)) =>
    /\ \A n \in 1..(1 + NumInputs + NumOutputs) : Scope(raw, n).ok /\ Scope(raw, n).term
    /\ ScopeOff(raw, NumInputs + NumOutputs + 2) = Len(raw)
    /\ Len(psbt.inputs) = NumInputs
    /\ Len(psbt.outputs) = NumOutputs

(* C5: every PSBT a successful decode returns holds a transaction, taken   *)
(* from an unsigned-transaction record of the global scope, all of whose   *)
(* inputs have an empty script and an empty witness stack.                 *)
C5_UnsignedTxPresent ==
  status = "decoded" =>
    /\ IsSet(psbt.mtx)
    /\ \A i \in 1..NumInputs :
         psbt.mtx[1].inputs[i].script.raw = <<>> /\ psbt.mtx[1].inputs[i].witness.items = <<>>
    /\ \E r \in Entries(Scope(raw, 1).recs) :
         r.key[1] = UNSIGNED_TX /\ TXFromRaw(r.value).ok /\ TXFromRaw(r.value).tx = psbt.mtx

C5_Witness ==
  status = "decoded" /\ IsSet(psbt.mtx) /\ NumInputs = 2 /\ psbt.unknown # <<>>

(* C6: A.merge(B) raises whenever an input record of A and its counterpart *)
(* in B hold the same signature, path or unknown key with different        *)
(* values.                                                                 *)
Conflict(a, b) ==
  \E x \in Entries(a) : \E y \in Entries(b) : x.key = y.key /\ x.value # y.value

C6_MergeConflictRaises ==
  [][(op' = "merge"
      /\ \E i \in 1..Len(psbt.inputs) :
           /\ i <= Len(arg'[1].inputs)
           /\ \/ Conflict(psbt.inputs[i].signatures, arg'[1].inputs[i].signatures)
              \/ Conflict(psbt.inputs[i].paths, arg'[1].inputs[i].paths)
              \/ Conflict(psbt.inputs[i].unknown, arg'[1].inputs[i].unknown))
       => err' # ""]_vars

(* C7: in the global scope and in each input scope, decode stores every    *)
(* record whose type tag is not in the dispatch table, key and value, in   *)
(* the scope's unknown map, and encode emits each stored pair inside the   *)
(* same scope.                                                             *)
C7_UnknownPreserved ==
  /\ status = "decoded" =>
       /\ \A r \in Entries(Scope(raw, 1).recs) :
            r.key[1] # UNSIGNED_TX => r \in Entries(psbt.unknown)
       /\ \A n \in 1..Len(psbt.inputs) :
            \A r \in Entries(Scope(raw, n + 1).recs) :
              r.key[1] \notin InputTags => r \in Entries(psbt.inputs[n].unknown)
  /\ (status = "decoded" /\ op = "write" /\ err = "") =>
       /\ Entries(psbt.unknown) \subseteq Entries(Scope(out, 1).recs)
       /\ \A n \in 1..Len(psbt.inputs) :
            Entries(psbt.inputs[n].unknown) \subseteq Entries(Scope(out, n + 1).recs)

(* C8: merge(other) fails and combines no record when other has fewer or   *)
(* more input records, or fewer or more output records, than this PSBT.    *)
C8_MergeCountMismatch ==
  [][(op' = "merge"
      /\ \/ Len(arg'[1].inputs) # Len(psbt.inputs)
         \/ Len(arg'[1].outputs) # Len(psbt.outputs))
       => (err' # "" /\ psbt' = psbt)]_vars

(* C9: PSBTInput.isSane() returns false exactly when both UTXO kinds are   *)
(* set, or the witness redeem script is set without a witness UTXO, or the *)
(* finalized witness stack is set without a witness UTXO; it changes no    *)
(* field and never raises.                                                 *)
C9_IsSaneExact ==
  [][op' = "inputIsSane" =>
       /\ err' = ""
       /\ psbt' = psbt
       /\ ret' = ~( \/ (psbt.inputs[arg'[1]].tx # Null /\ psbt.inputs[arg'[1]].output # Null)
                     \/ (psbt.inputs[arg'[1]].redeemWitness # Null /\ psbt.inputs[arg'[1]].output = Null)
                     \/ (psbt.inputs[arg'[1]].witnessStack # Null /\ psbt.inputs[arg'[1]].output = Null) )]_vars

C9_Witness ==
  /\ op = "inputIsSane"
  /\ ret = FALSE
  /\ psbt.inputs[arg[1]].witnessStack # Null
  /\ psbt.inputs[arg[1]].output = Null
  /\ psbt.inputs[arg[1]].tx = Null
  /\ psbt.inputs[arg[1]].redeemWitness = Null

(* C10: PSBT.equals(other) returns true if and only if the two embedded    *)
(* transactions have the same identifier, whatever the input records and   *)
(* unknown fields of the two sides; it raises only when a side has no      *)
(* transaction.                                                            *)
C10_EqualsByTxid ==
  op = "equals" =>
    /\ (err = "") = (IsSet(psbt.mtx) /\ IsSet(arg[1].mtx))
    /\ err = "" => (ret = (TXHash(psbt.mtx[1]) = TXHash(arg[1].mtx[1])))

C10_Witness ==
  /\ op = "equals"
  /\ err = ""
  /\ ret = TRUE
  /\ psbt.inputs # arg[1].inputs
  /\ psbt.unknown # arg[1].unknown

(* C11: the binary form of a Path is 4 + 4 * len(indexes) bytes with the  *)
(* fingerprint first (big endian), decoding it gives back the same        *)
(* fingerprint and the same indexes in the same order, and bytes whose     *)
(* length is not 4 + 4k fail to decode.                                    *)
C11_PathRoundTrip ==
  /\ op = "path.toRaw" =>
       /\ Len(out) = 4 + 4 * Len(path.indexes)
       /\ size2 = 2 * Len(out)
       /\ out[1] * 16777216 + out[2] * 65536 + out[3] * 256 + out[4] = path.masterFingerPrint
  /\ (op = "path.fromRaw" /\ arg # <<>>) =>
       /\ err = ""
       /\ path.masterFingerPrint = arg[1].masterFingerPrint
       /\ path.indexes = arg[1].indexes
  /\ (op = "path.fromRaw" /\ arg = <<>>) =>
       ((err # "") = (Len(raw) < 4 \/ (Len(raw) - 4) % 4 # 0))

C11_Witness ==
  /\ op = "path.fromRaw"
  /\ arg # <<>>
  /\ err = ""
  /\ path.masterFingerPrint = 16909060
  /\ Len(path.indexes) = 2
  /\ path.indexes[1] = 2147483647
  /\ path.indexes[2] = 258

(* C12: for every PSBT with a transaction and every PSBTInput, getSize()   *)
(* equals the number of bytes write() emits.                               *)
C12_SizeMatchesWrite ==
  op \in {"toRaw", "input.toRaw"} => size2 = 2 * Len(out)

====
